---- MODULE Spec2Model ----
(***************************************************************************)
(* A model of sleep.py: the interval resolution of get_interval, the       *)
(* next-interval prediction of get_next_interval, the run of main and the  *)
(* create-or-get lookup of get_sleep_calendar_id.                          *)
(*                                                                         *)
(* Time is counted in seconds.  A naive datetime is an integer: the wall   *)
(* clock seconds since 00:00 of the day on which America/Los_Angeles       *)
(* springs forward (02:00 PST -> 03:00 PDT).  An aware datetime is a       *)
(* record [wall, off] (wall clock seconds and UTC offset); its instant is  *)
(* wall - off.  A timedelta is an integer number of seconds.               *)
(*                                                                         *)
(* A command-line text is a record [kind, a, b]:                           *)
(*   none   the option was not given (None)                                *)
(*   empty  the empty string                                               *)
(*   bad    a text no parser understands                                   *)
(*   now    the text "now"                                                 *)
(*   abs    a date/time text: a minutes and b seconds of wall clock        *)
(*   num    a number of hours, written in hundredths of an hour (a)        *)
(*   nl     a natural-language duration: a hours b minutes                 *)
(***************************************************************************)
EXTENDS Integers, Sequences, FiniteSets, TLC

VARIABLES
    pc,              \* position of the run
    clock,           \* wall clock (naive seconds) at the first read of "now"
    tick,            \* seconds the wall clock advances between two reads
    args,            \* the parsed command line (argparse namespace)
    result,          \* outcome of the single get_interval call (mode "interval")
    current_interval,\* outcome of get_current_interval (mode "main")
    next_interval,   \* outcome of get_next_interval (mode "main")
    reads,           \* number of wall clock reads so far in the run
    calendars,       \* the calendar list of the service: Seq of [id, summary]
    events,          \* events inserted into the service
    calls,           \* calendar collaborator calls made so far, in order
    ids,             \* ids returned by the calls of get_sleep_calendar_id
    initCalendars    \* the calendar list before the first call

vars == <<pc, clock, tick, args, result, current_interval, next_interval,
          reads, calendars, events, calls, ids, initCalendars>>

----------------------------------------------------------------------------
(* Bounds of the model. *)

MaxHour == 4          \* date/time texts name the hours 0..MaxHour
MaxCalendars == 3     \* the calendar list starts with at most this many entries

----------------------------------------------------------------------------
(* Texts. *)

Text(k, x, y) == [kind |-> k, a |-> x, b |-> y]
NoneText == Text("none", 0, 0)
EmptyText == Text("empty", 0, 0)
BadText == Text("bad", 0, 0)
NowText == Text("now", 0, 0)
AbsText(m, s) == Text("abs", m, s)
NumText(c) == Text("num", c, 0)
NLText(h, m) == Text("nl", h, m)

\* Python truthiness of an optional string: None and "" are falsy.
Truthy(text) == text.kind \notin {"none", "empty"}

\* Optional values (None or a value).
None == [some |-> FALSE, v |-> 0]
Some(x) == [some |-> TRUE, v |-> x]

Abs(x) == IF x < 0 THEN -x ELSE x
Max(x, y) == IF x >= y THEN x ELSE y

----------------------------------------------------------------------------
(* The wall clock: the k-th read (k = 0, 1, ...) of the run. *)

Now(k) == clock + k * tick

----------------------------------------------------------------------------
(* Configuration. *)

\* TIMEZONE = America/Los_Angeles: UTC offsets of PST and PDT, and the wall
\* clock second (03:00) from which PDT is in force on the day of the model.
PST == -28800
PDT == -25200
DstWall == 10800

\* get_checked_duration's threshold_mins=5, in seconds.
Threshold == 300

\* get_interval's defaults: default_end='now', default_duration='8'.
DefaultEnd == NowText
DefaultDuration == NumText(800)

\* SLEEP_CALENDAR["summary"]
SleepSummary == "Sleep"

----------------------------------------------------------------------------
(* Temporal parser. *)

\* parse_time: dateparser.parse gives a naive datetime, or None for a text it
\* cannot resolve (it does not raise).  "now" reads the wall clock.  k is the
\* number of wall clock reads made before the call.
ParseTime(text, k) ==
    CASE text.kind = "now" -> [val |-> Some(Now(k)), k |-> k + 1]
      [] text.kind = "abs" -> [val |-> Some(text.a * 60 + text.b), k |-> k]
      [] OTHER -> [val |-> None, k |-> k]

\* parse_duration: float(text) hours first; otherwise parsedatetime resolves
\* the text against datetime.now() and the delta is returned; otherwise
\* ValueError (ok = FALSE).
ParseDuration(text, k) ==
    CASE text.kind = "num" -> [ok |-> TRUE, val |-> Some(text.a * 36), k |-> k]
      [] text.kind = "nl" ->
            LET now == Now(k)
                time_struct == now + text.a * 3600 + text.b * 60
            IN [ok |-> TRUE, val |-> Some(time_struct - now), k |-> k + 1]
      [] OTHER -> [ok |-> FALSE, val |-> None, k |-> k]

----------------------------------------------------------------------------
(* Aware datetimes. *)

\* TIMEZONE.localize(naive) with is_dst=False: the wall clock is kept and the
\* UTC offset in force at that wall clock is attached; the wall clocks that
\* the spring-forward skips (02:00..03:00) get the standard offset.
Localize(naive) ==
    [wall |-> naive, off |-> IF naive < DstWall THEN PST ELSE PDT]

\* The instant of an aware datetime, in UTC seconds: comparison and
\* subtraction of aware datetimes work on it.
Instant(dt) == dt.wall - dt.off

\* aware + timedelta: wall clock arithmetic, the tzinfo is kept.
AwarePlus(dt, delta) == [wall |-> dt.wall + delta, off |-> dt.off]

\* strftime("%Y-%m-%d %H:%M"): the wall clock down to the minute.
Strftime(dt) == AbsText(dt.wall \div 60, 0)

NoAware == [wall |-> 0, off |-> 0]

----------------------------------------------------------------------------
(* Interval resolver. *)

\* Truthiness of the parsed values: a datetime is always truthy, a timedelta
\* is falsy when it is zero, None is falsy.
TruthyTime(x) == x.some
TruthyDelta(x) == x.some /\ x.v # 0

\* get_checked_duration(start, end, check_duration): ok = FALSE is the
\* ValueError of the consistency check.
get_checked_duration(start, end, check_duration) ==
    LET calculated_duration == end - start
    IN IF ~TruthyDelta(check_duration)
       THEN [ok |-> TRUE, val |-> calculated_duration]
       ELSE IF Abs(calculated_duration - check_duration.v) > Threshold
            THEN [ok |-> FALSE, val |-> 0]
            ELSE [ok |-> TRUE, val |-> Max(check_duration.v, calculated_duration)]

\* A variant of the case split that forgets the "only end" branch.
BranchOfNoEndOnly(s, e, d) ==
    IF s /\ e /\ d THEN 1
    ELSE IF s /\ e THEN 2
    ELSE IF s /\ d THEN 3
    ELSE IF e /\ d THEN 4
    ELSE IF d /\ ~(s \/ e) THEN 5
    ELSE IF s /\ ~(e \/ d) THEN 6
    ELSE IF ~(s \/ e \/ d) THEN 8
    ELSE 9

\* The if/elif chain of get_interval over the truthiness of start, end and
\* duration: the number of the branch taken, 9 for the final else.
BranchOf(s, e, d) ==
    IF s /\ e /\ d THEN 1
    ELSE IF s /\ e THEN 2
    ELSE IF s /\ d THEN 3
    ELSE IF e /\ d THEN 4
    ELSE IF d /\ ~(s \/ e) THEN 5
    ELSE IF s /\ ~(e \/ d) THEN 6
    ELSE IF e /\ ~(s \/ d) THEN 7
    ELSE IF ~(s \/ e \/ d) THEN 8
    ELSE 9

\* The outcome of a get_interval call.  ok = FALSE: the call raised (err
\* names the raise); branch is 0 when the case split was not reached; k is
\* the number of wall clock reads after the call.
Outcome(ok, err, branch, start, end, duration, k) ==
    [ok |-> ok, err |-> err, branch |-> branch, start |-> start, end |-> end,
     duration |-> duration, k |-> k]

Raise(err, branch, k) == Outcome(FALSE, err, branch, NoAware, NoAware, 0, k)

\* Lines 363-370 of get_interval: localize, check start <= end, return.
Finish(branch, start, end, duration, k) ==
    LET lstart == Localize(start)
        lend == Localize(end)
    IN IF Instant(lstart) > Instant(lend)
       THEN Raise("start_after_end", branch, k)
       ELSE Outcome(TRUE, "none", branch, lstart, lend, duration, k)

\* Lines 324-361 of get_interval: the case split on the parsed values.
Resolve(start, end, duration, k) ==
    LET branch == BranchOf(TruthyTime(start), TruthyTime(end), TruthyDelta(duration))
    IN CASE branch \in {1, 2} ->
              LET checked == get_checked_duration(start.v, end.v, duration)
              IN IF checked.ok
                 THEN Finish(branch, start.v, end.v, checked.val, k)
                 ELSE Raise("inconsistent", branch, k)
         [] branch = 3 -> Finish(branch, start.v, start.v + duration.v, duration.v, k)
         [] branch = 4 -> Finish(branch, end.v - duration.v, end.v, duration.v, k)
         [] branch = 5 ->
              LET pe == ParseTime(DefaultEnd, k)
              IN Finish(branch, pe.val.v - duration.v, pe.val.v, duration.v, pe.k)
         [] branch = 6 ->
              LET pd == ParseDuration(DefaultDuration, k)
              IN Finish(branch, start.v, start.v + pd.val.v, pd.val.v, pd.k)
         [] branch = 7 ->
              LET pd == ParseDuration(DefaultDuration, k)
              IN Finish(branch, end.v - pd.val.v, end.v, pd.val.v, pd.k)
         [] branch = 8 ->
              LET pe == ParseTime(DefaultEnd, k)
                  pd == ParseDuration(DefaultDuration, pe.k)
              IN Finish(branch, pe.val.v - pd.val.v, pe.val.v, pd.val.v, pd.k)
         [] OTHER -> Raise("invalid_combination", branch, k)

\* get_interval(input_start, input_end, input_duration), called after k wall
\* clock reads.
get_interval(input_start, input_end, input_duration, k) ==
    LET ps == IF Truthy(input_start) THEN ParseTime(input_start, k)
              ELSE [val |-> None, k |-> k]
        pe == IF Truthy(input_end) THEN ParseTime(input_end, ps.k)
              ELSE [val |-> None, k |-> ps.k]
        pd == IF Truthy(input_duration) THEN ParseDuration(input_duration, pe.k)
              ELSE [ok |-> TRUE, val |-> None, k |-> pe.k]
    IN IF ~pd.ok
       THEN Raise("parse_duration", 0, pd.k)
       ELSE Resolve(ps.val, pe.val, pd.val, pd.k)

----------------------------------------------------------------------------
(* Next-interval predictor. *)

\* The value None of an interval (no prediction).
Absent(k) == Outcome(TRUE, "absent", 0, NoAware, NoAware, 0, k)
IsNone(interval) == interval.err = "absent"

prediction_requested(a) ==
    a.predict_next \/ Truthy(a.next_start) \/ Truthy(a.next_end)
        \/ Truthy(a.next_duration)

\* get_next_interval(args, current_interval), called after k wall clock reads.
get_next_interval(a, current, k) ==
    IF ~prediction_requested(a)
    THEN Absent(k)
    ELSE LET offset == ParseDuration(a.default_offset, k)
         IN IF ~offset.ok
            THEN Raise("parse_duration", 0, offset.k)
            ELSE LET next_start ==
                         IF ~(Truthy(a.next_start) \/ Truthy(a.next_end)
                                \/ Truthy(a.next_duration))
                         THEN Strftime(AwarePlus(current.end, offset.val.v))
                         ELSE a.next_start
                 IN get_interval(next_start, a.next_end, a.next_duration, offset.k)

----------------------------------------------------------------------------
(* Calendar collaborator. *)

\* service.calendars().insert(body): the service gives the new calendar an
\* id of its own and the calendar shows up in the calendar list.
CalendarsInsert(cals, summary) ==
    Append(cals, [id |-> Len(cals) + 1, summary |-> summary])

\* A lookup that compares the wrong field and so never finds the calendar.
get_sleep_calendar_id_never_found(cals) ==
    [id |-> Len(cals) + 1, calendars |-> CalendarsInsert(cals, SleepSummary),
     created |-> TRUE]

\* get_sleep_calendar_id(service): the id of the first calendar of the list
\* whose summary is "Sleep"; when there is none, one is created.
get_sleep_calendar_id(cals) ==
    LET found == {i \in 1..Len(cals) : cals[i].summary = SleepSummary}
    IN IF found # {}
       THEN LET first == CHOOSE i \in found : \A j \in found : i <= j
            IN [id |-> cals[first].id, calendars |-> cals, created |-> FALSE]
       ELSE LET after == CalendarsInsert(cals, SleepSummary)
            IN [id |-> after[Len(after)].id, calendars |-> after, created |-> TRUE]

----------------------------------------------------------------------------
(* Inputs. *)

Hours == 0..MaxHour

\* Date/time texts of a get_interval call: minutes 0 and 5 and seconds 0 and
\* 30 of every hour, on both sides of the spring-forward.
TimeTexts ==
    {NoneText, EmptyText, BadText, NowText}
        \cup {AbsText(h * 60 + m, s) : h \in Hours, m \in {0, 5}, s \in {0, 30}}

DurationTexts ==
    {NoneText, EmptyText, BadText, NumText(-100)}
        \cup {NumText(100 * h) : h \in Hours}
        \cup {NLText(h, m) : h \in {0, MaxHour}, m \in {0, 5}}

\* Wall clocks at the first read: before and after the spring-forward.
Clocks == {3600 + 30, (MaxHour + 4) * 3600 + 30}
Ticks == {0, 1}

\* The command lines of the runs of main.
MainStarts == {NoneText, NowText, AbsText(60, 0)}
MainEnds == {NoneText, BadText, NowText, AbsText(MaxHour * 60 + 5, 30)}
MainDurations == {NoneText, BadText, NumText(100 * MaxHour)}
NextStarts == {NoneText, BadText, AbsText((MaxHour + 20) * 60, 0)}
NextEnds == {NoneText, AbsText((MaxHour + 28) * 60, 0)}
NextDurations == {NoneText, NumText(800), NLText(8, 0)}
Offsets == {NumText(1600), NumText(2100), NLText(16, 0), BadText}

NoArgs ==
    [start |-> NoneText, end |-> NoneText, duration |-> NoneText,
     predict_next |-> FALSE, next_start |-> NoneText, next_end |-> NoneText,
     next_duration |-> NoneText, default_offset |-> NumText(1600),
     update_calendar |-> FALSE]

Summaries == {SleepSummary, "Work", "Home"}

\* Calendar lists of length n; the i-th calendar has id i.
CalendarLists(n) ==
    {[i \in 1..n |-> [id |-> i, summary |-> f[i]]] : f \in [1..n -> Summaries]}

NoOutcome == Raise("not_called", 0, 0)

----------------------------------------------------------------------------
(* A single call of get_interval. *)

InitInterval ==
    /\ pc = "interval_call"
    /\ clock \in Clocks
    /\ tick \in Ticks
    /\ \E s \in TimeTexts, e \in TimeTexts, d \in DurationTexts :
          args = [NoArgs EXCEPT !.start = s, !.end = e, !.duration = d]
    /\ result = NoOutcome
    /\ current_interval = NoOutcome
    /\ next_interval = NoOutcome
    /\ reads = 0
    /\ calendars = <<>>
    /\ events = <<>>
    /\ calls = <<>>
    /\ ids = <<>>
    /\ initCalendars = <<>>

CallGetInterval ==
    /\ pc = "interval_call"
    /\ result' = get_interval(args.start, args.end, args.duration, reads)
    /\ reads' = result'.k
    /\ pc' = "interval_done"
    /\ UNCHANGED <<clock, tick, args, current_interval, next_interval,
                   calendars, events, calls, ids, initCalendars>>

NextInterval == CallGetInterval

SpecInterval == InitInterval /\ [][NextInterval]_vars

----------------------------------------------------------------------------
(* A run of main. *)

Init ==
    /\ pc = "current"
    /\ clock = (MaxHour + 4) * 3600 + 30
    /\ tick \in Ticks
    /\ \E s \in MainStarts, e \in MainEnds, d \in MainDurations, p \in BOOLEAN,
          ns \in NextStarts, ne \in NextEnds, nd \in NextDurations,
          o \in Offsets, u \in BOOLEAN :
          args = [start |-> s, end |-> e, duration |-> d, predict_next |-> p,
                  next_start |-> ns, next_end |-> ne, next_duration |-> nd,
                  default_offset |-> o, update_calendar |-> u]
    /\ result = NoOutcome
    /\ current_interval = NoOutcome
    /\ next_interval = NoOutcome
    /\ reads = 0
    /\ calendars \in CalendarLists(0) \cup CalendarLists(1)
    /\ events = <<>>
    /\ calls = <<>>
    /\ ids = <<>>
    /\ initCalendars = calendars

\* current_interval = get_current_interval(args); an exception ends the run.
GetCurrentInterval ==
    /\ pc = "current"
    /\ current_interval' = get_interval(args.start, args.end, args.duration, reads)
    /\ reads' = current_interval'.k
    /\ pc' = IF current_interval'.ok THEN "next" ELSE "error"
    /\ UNCHANGED <<clock, tick, args, result, next_interval, calendars, events,
                   calls, ids, initCalendars>>

\* next_interval = get_next_interval(args, current_interval)
GetNextInterval ==
    /\ pc = "next"
    /\ next_interval' = get_next_interval(args, current_interval, reads)
    /\ reads' = next_interval'.k
    /\ pc' = IF next_interval'.ok THEN "flag" ELSE "error"
    /\ UNCHANGED <<clock, tick, args, result, current_interval, calendars,
                   events, calls, ids, initCalendars>>

\* A main that goes on to the calendar whatever the flag says.
CheckUpdateCalendarAlways ==
    /\ pc = "flag"
    /\ pc' = "service"
    /\ UNCHANGED <<clock, tick, args, result, current_interval, next_interval,
                   reads, calendars, events, calls, ids, initCalendars>>

\* if not args.update_calendar: return
CheckUpdateCalendar ==
    /\ pc = "flag"
    /\ pc' = IF args.update_calendar THEN "service" ELSE "done"
    /\ UNCHANGED <<clock, tick, args, result, current_interval, next_interval,
                   reads, calendars, events, calls, ids, initCalendars>>

\* service = get_service(): raises when the security directory or the client
\* secret is missing.
GetService ==
    /\ pc = "service"
    /\ calls' = Append(calls, "get_service")
    /\ \E present \in BOOLEAN : pc' = IF present THEN "calendar" ELSE "error"
    /\ UNCHANGED <<clock, tick, args, result, current_interval, next_interval,
                   reads, calendars, events, ids, initCalendars>>

\* calendar_id = get_sleep_calendar_id(service)
GetSleepCalendarId ==
    /\ pc = "calendar"
    /\ LET r == get_sleep_calendar_id(calendars)
       IN /\ calendars' = r.calendars
          /\ ids' = Append(ids, r.id)
    /\ calls' = Append(calls, "get_sleep_calendar_id")
    /\ pc' = "current_event"
    /\ UNCHANGED <<clock, tick, args, result, current_interval, next_interval,
                   reads, events, initCalendars>>

\* The event create_sleep_event inserts for an interval.
SleepEvent(calendar_id, interval, event_prefix) ==
    [calendarId |-> calendar_id, prefix |-> event_prefix,
     start |-> interval.start, end |-> interval.end,
     duration |-> interval.duration]

\* create_current_sleep_event(service, calendar_id, current_interval)
CreateCurrentSleepEvent ==
    /\ pc = "current_event"
    /\ events' = Append(events, SleepEvent(ids[Len(ids)], current_interval, "Sleep"))
    /\ calls' = Append(calls, "events_insert")
    /\ pc' = "next_event"
    /\ UNCHANGED <<clock, tick, args, result, current_interval, next_interval,
                   reads, calendars, ids, initCalendars>>

\* create_next_sleep_event(service, calendar_id, next_interval): nothing is
\* inserted when there is no next interval.
CreateNextSleepEvent ==
    /\ pc = "next_event"
    /\ IF IsNone(next_interval)
       THEN UNCHANGED <<events, calls>>
       ELSE /\ events' = Append(events,
                    SleepEvent(ids[Len(ids)], next_interval, "Predicted Sleep"))
            /\ calls' = Append(calls, "events_insert")
    /\ pc' = "done"
    /\ UNCHANGED <<clock, tick, args, result, current_interval, next_interval,
                   reads, calendars, ids, initCalendars>>

Next ==
    \/ GetCurrentInterval
    \/ GetNextInterval
    \/ CheckUpdateCalendar
    \/ GetService
    \/ GetSleepCalendarId
    \/ CreateCurrentSleepEvent
    \/ CreateNextSleepEvent

Spec == Init /\ [][Next]_vars

----------------------------------------------------------------------------
(* Two calls in a row of get_sleep_calendar_id against one service. *)

InitCalendar ==
    /\ pc = "lookup"
    /\ clock = 0
    /\ tick = 0
    /\ args = NoArgs
    /\ result = NoOutcome
    /\ current_interval = NoOutcome
    /\ next_interval = NoOutcome
    /\ reads = 0
    /\ \E n \in 0..MaxCalendars : calendars \in CalendarLists(n)
    /\ events = <<>>
    /\ calls = <<>>
    /\ ids = <<>>
    /\ initCalendars = calendars

LookupSleepCalendar ==
    /\ pc = "lookup"
    /\ Len(ids) < 2
    /\ LET r == get_sleep_calendar_id(calendars)
       IN /\ calendars' = r.calendars
          /\ ids' = Append(ids, r.id)
    /\ calls' = Append(calls, "get_sleep_calendar_id")
    /\ UNCHANGED <<pc, clock, tick, args, result, current_interval,
                   next_interval, reads, events, initCalendars>>

NextCalendar == LookupSleepCalendar

SpecCalendar == InitCalendar /\ [][NextCalendar]_vars

----------------------------------------------------------------------------
(* Properties of a single get_interval call (SpecInterval). *)

\* The values the caller supplied, as get_interval parses them.
SuppliedStart == ParseTime(args.start, 0)
SuppliedEnd == ParseTime(args.end, SuppliedStart.k)
SuppliedDuration == ParseDuration(args.duration, SuppliedEnd.k)

Returned == pc = "interval_done" /\ result.ok

\* C1: with start, end and a non-negative duration all supplied, get_interval
\* succeeds if and only if |(end - start) - duration| <= 5 minutes, and on
\* success the returned duration is max(duration, end - start).
C1_SucceedsIffConsistent ==
    (/\ pc = "interval_done"
     /\ SuppliedStart.val.some
     /\ SuppliedEnd.val.some
     /\ SuppliedDuration.ok
     /\ SuppliedDuration.val.v >= 0)
    => LET calculated == SuppliedEnd.val.v - SuppliedStart.val.v
           supplied == SuppliedDuration.val.v
       IN /\ result.ok <=> (Abs(calculated - supplied) <= 300)
          /\ result.ok => result.duration = Max(supplied, calculated)

\* C2: every returned triple has start <= end; its duration is exactly
\* end - start when the caller supplied no duration, and within 5 minutes of
\* end - start when the caller supplied one.
C2_ReturnedTripleConsistent ==
    Returned =>
        LET span == Instant(result.end) - Instant(result.start)
        IN /\ Instant(result.start) <= Instant(result.end)
           /\ ~Truthy(args.duration) => result.duration = span
           /\ Truthy(args.duration) => Abs(result.duration - span) <= 300

\* C3: with a non-negative duration (zero included) and exactly one endpoint
\* supplied, the missing endpoint is derived from the supplied duration:
\* end = start + duration, respectively start = end - duration, on the wall
\* clock; the default duration is not used.
C3_EndpointFromSuppliedDuration ==
    (/\ Returned
     /\ SuppliedDuration.ok
     /\ SuppliedDuration.val.v >= 0
     /\ \/ SuppliedStart.val.some /\ ~Truthy(args.end)
        \/ SuppliedEnd.val.some /\ ~Truthy(args.start))
    => /\ result.end.wall = result.start.wall + SuppliedDuration.val.v
       /\ result.duration = SuppliedDuration.val.v

\* C4: a supplied start or end text that cannot be resolved to a date/time
\* makes get_interval fail; no interval is returned.
C4_UnparseableTimeFails ==
    (/\ pc = "interval_done"
     /\ \/ args.start.kind = "bad"
        \/ args.end.kind = "bad")
    => ~result.ok

\* C9: the final else of get_interval's case split is never taken: whenever
\* the case split is reached, one of its eight branches is taken.
C9_ElseUnreachable ==
    pc = "interval_done" =>
        /\ result.branch # 9
        /\ result.err # "invalid_combination"
        /\ result.err # "parse_duration" => result.branch \in 1..8

\* C9 witness: a call with only an end supplied went through the case split
\* and returned from the "only end" branch.
C9_Witness ==
    /\ Returned
    /\ result.branch = 7
    /\ SuppliedEnd.val.some
    /\ ~Truthy(args.start)
    /\ ~Truthy(args.duration)

\* C10: a get_interval call reads the wall clock at most once.
C10_ClockReadAtMostOnce ==
    pc = "interval_done" => reads <= 1

----------------------------------------------------------------------------
(* Properties of a run of main (Spec). *)

NextSupplied ==
    Truthy(args.next_start) \/ Truthy(args.next_end) \/ Truthy(args.next_duration)

\* get_next_interval has been called in this run.
NextCalled == current_interval.ok /\ pc \notin {"current", "next"}

\* C5: when prediction is requested and no next-start, next-end or
\* next-duration is supplied, the next interval starts exactly at the current
\* interval's end plus the parsed offset.
C5_NextStartIsEndPlusOffset ==
    (/\ NextCalled
     /\ args.predict_next
     /\ ~NextSupplied
     /\ next_interval.ok)
    => LET offset == ParseDuration(args.default_offset, current_interval.k)
       IN next_interval.start.wall = current_interval.end.wall + offset.val.v

\* Both intervals are resolved: the current one was returned, and the next
\* one was returned or, with no prediction requested, is None.
BothResolved ==
    /\ current_interval.ok
    /\ next_interval.ok
    /\ IsNone(next_interval) <=> ~prediction_requested(args)

\* C6: no calendar collaborator call happens unless the current and the next
\* interval have been resolved and the update-calendar flag is set; a run
\* that fails to parse or validate, or has the flag unset, makes no call.
C6_NoCalendarCallBeforeValidation ==
    /\ calls # <<>> => args.update_calendar /\ BothResolved
    /\ events # <<>> => calls # <<>>
    /\ Len(calendars) > Len(initCalendars) => calls # <<>>

\* C6 witness: a run with the flag set and a prediction requested resolved
\* both intervals and then made all its calendar calls.
C6_Witness ==
    /\ pc = "done"
    /\ args.update_calendar
    /\ args.predict_next
    /\ calls = <<"get_service", "get_sleep_calendar_id", "events_insert",
                 "events_insert">>
    /\ Len(events) = 2

\* What a caller sees of an outcome: the returned interval, or the failure.
Visible(o) ==
    [ok |-> o.ok, none |-> IsNone(o), start |-> o.start, end |-> o.end,
     duration |-> o.duration]

\* C8: when at least one of next-start, next-end, next-duration is supplied,
\* the outcome of get_next_interval is the same for every default-offset
\* text, unparseable ones included.
C8_OffsetIrrelevantWhenNextSupplied ==
    (NextCalled /\ NextSupplied) =>
        \A o \in Offsets :
            Visible(get_next_interval([args EXCEPT !.default_offset = o],
                                      current_interval, current_interval.k))
                = Visible(next_interval)

----------------------------------------------------------------------------
(* Properties of two calls of get_sleep_calendar_id (SpecCalendar). *)

HasSleep(cals) == \E i \in 1..Len(cals) : cals[i].summary = SleepSummary

\* C7: two calls in a row return the same calendar id, create at most one
\* calendar in total, and create none when a calendar with the configured
\* name already exists.
C7_CalendarLookupIdempotent ==
    /\ Len(ids) = 2 => ids[1] = ids[2]
    /\ Len(calendars) <= Len(initCalendars) + 1
    /\ HasSleep(initCalendars) => calendars = initCalendars
    /\ \A i \in 1..Len(ids) :
           \E j \in 1..Len(calendars) :
               calendars[j].id = ids[i] /\ calendars[j].summary = SleepSummary

\* C7 witness: starting without a "Sleep" calendar, the first call created
\* one and the second call returned it without creating another.
C7_Witness ==
    /\ Len(ids) = 2
    /\ ~HasSleep(initCalendars)
    /\ Len(initCalendars) > 0
    /\ Len(calendars) = Len(initCalendars) + 1
    /\ ids[1] = ids[2]

====
